---- MODULE Spec2Model ----
(***************************************************************************)
(* HumeAgentService (src/HumeAiTwilio/hume_agent_service.py): the prompt   *)
(* builder _build_system_prompt and the five HTTP operations create_agent, *)
(* update_agent, delete_agent, get_agent, list_agents.                     *)
(* The startup script (src/railway_startup.py): main, wait_for_database,   *)
(* run_migrations, start_server.                                           *)
(*                                                                         *)
(* Text is a sequence of tokens.  A token is either one character of      *)
(* caller data ("a", "b", "_", ...) or one literal fragment of the source  *)
(* (a whole fixed line such as "CRITICAL RESPONSE RULES:").  String        *)
(* concatenation is \o, so containment and position are real.              *)
(***************************************************************************)
EXTENDS Integers, Sequences, FiniteSets, TLC

VARIABLES
    client,     \* the service instance: api_key, base_url, headers
    pc,         \* "idle" | "awaiting" (a request is in flight) | "done"
    op,         \* the operation in progress
    stack,      \* the call frames (arguments), outermost first; create_agent recurses
    requests,   \* HTTP requests issued by the call in progress, in order
    responses,  \* transport outcomes received by the call in progress, in order
    result,     \* the value returned to the caller
    raised,     \* TRUE iff an exception left the operation
    clock,      \* datetime.now(), in seconds
    cBase,      \* compose run: base_prompt
    cAgent,     \* compose run: agent_obj
    cOut,       \* compose run: the returned text
    cFell,      \* compose run: the except clause (lines 278-280) ran
    cRaised,    \* compose run: an exception left _build_system_prompt
    cDone,      \* compose run: _build_system_prompt has returned
    threads,    \* concurrent callers of the one instance: each caller's call
    db_url,     \* railway_startup.py: os.environ.get('DATABASE_URL')
    startPc,    \* railway_startup.py: where the script is
    attempt,    \* wait_for_database: the loop variable
    checks,     \* wait_for_database: database checks run so far
    lastCheck,  \* wait_for_database: how the last check ended
    lastMigrate, \* run_migrations: how the migrate command ended
    steps,      \* main: the steps begun, in order
    exit_code,  \* the script's exit status once it has ended
    uncaught    \* TRUE iff the script ended by an exception nothing caught

vars == <<client, pc, op, stack, requests, responses, result, raised, clock,
          cBase, cAgent, cOut, cFell, cRaised, cDone, threads,
          db_url, startPc, attempt, checks, lastCheck, lastMigrate, steps, exit_code, uncaught>>

callVars == <<client, pc, op, stack, requests, responses, result, raised, clock>>
composeVars == <<cBase, cAgent, cOut, cFell, cRaised, cDone>>
sharedVars == <<threads>>
startupVars == <<db_url, startPc, attempt, checks, lastCheck, lastMigrate, steps, exit_code, uncaught>>

----------------------------------------------------------------------------
(* Bounds of the model *)

\* 409 answers the remote gives to one create_agent call
MaxRetries == 2
\* seconds the clock can advance
MaxClock == 1
\* nested create_agent calls the interpreter's call stack has room for
\* (sys.getrecursionlimit() less the frames of the caller and of one POST)
StackFrames == 3

----------------------------------------------------------------------------
(* Python values.  Every value has the same shape so that any two compare. *)
(*   missing : the key is not in the mapping                               *)
(*   none    : None / JSON null                                            *)
(*   text    : str, in s                                                   *)
(*   int     : a number, in n                                              *)
(*   list    : a list of str, in l                                         *)

Missing == [kind |-> "missing", s |-> <<>>, n |-> 0, l |-> <<>>]
Null == [kind |-> "none", s |-> <<>>, n |-> 0, l |-> <<>>]
Text(s) == [kind |-> "text", s |-> s, n |-> 0, l |-> <<>>]
Num(n) == [kind |-> "int", s |-> <<>>, n |-> n, l |-> <<>>]
List(l) == [kind |-> "list", s |-> <<>>, n |-> 0, l |-> l]

\* Python truth value: `if x:`
Truthy(v) ==
    CASE v.kind = "text" -> v.s # <<>>
      [] v.kind = "int" -> v.n # 0
      [] v.kind = "list" -> v.l # <<>>
      [] OTHER -> FALSE

IsStr(v) == v.kind = "text"

Digit(d) ==
    CASE d = 0 -> "0" [] d = 1 -> "1" [] d = 2 -> "2" [] d = 3 -> "3"
      [] d = 4 -> "4" [] d = 5 -> "5" [] d = 6 -> "6" [] d = 7 -> "7"
      [] d = 8 -> "8" [] OTHER -> "9"

RECURSIVE Digits(_)
Digits(n) == IF n < 10 THEN <<Digit(n)>> ELSE Digits(n \div 10) \o <<Digit(n % 10)>>

RECURSIVE Flatten(_)
Flatten(ss) == IF ss = <<>> THEN <<>> ELSE Head(ss) \o Flatten(Tail(ss))

\* str(v) and {v} inside an f-string
Fmt(v) ==
    CASE v.kind = "text" -> v.s
      [] v.kind = "int" -> Digits(v.n)
      [] v.kind = "list" -> <<"[">> \o Flatten(v.l) \o <<"]">>
      [] OTHER -> <<"None">>

LowerCase == <<"a", "b", "c", "d", "e", "f", "g", "h", "i", "j", "k", "l", "m",
               "n", "o", "p", "q", "r", "s", "t", "u", "v", "w", "x", "y", "z">>
UpperCase == <<"A", "B", "C", "D", "E", "F", "G", "H", "I", "J", "K", "L", "M",
               "N", "O", "P", "Q", "R", "S", "T", "U", "V", "W", "X", "Y", "Z">>
UpperChar(c) ==
    IF \E i \in 1..Len(LowerCase) : LowerCase[i] = c
    THEN UpperCase[CHOOSE i \in 1..Len(LowerCase) : LowerCase[i] = c]
    ELSE c

\* str.upper()
Upper(s) == [i \in 1..Len(s) |-> UpperChar(s[i])]

\* str.replace('_', ' ')
ReplaceUnderscore(s) == [i \in 1..Len(s) |-> IF s[i] = "_" THEN " " ELSE s[i]]

NL == "\n"
\* the banner rule of box-drawing characters (47 of them), written in ASCII
BAR == "-----------------------------------------------"

----------------------------------------------------------------------------
(* Agent records (the database object handed to the service)               *)

BizKeys == {"company_name", "business_description", "company_website", "industry",
            "product_features", "pricing_info", "target_customers"}

\* business_info: None, a dict over the recognised keys, or some other truthy value
NoBiz == [kind |-> "none", d |-> [k \in BizKeys |-> Missing]]
BizDict(f) == [kind |-> "dict", d |-> [k \in BizKeys |-> IF k \in DOMAIN f THEN f[k] ELSE Missing]]
BizOther == [kind |-> "other", d |-> [k \in BizKeys |-> Missing]]

BizTruthy(b) ==
    CASE b.kind = "dict" -> \E k \in BizKeys : b.d[k].kind # "missing"
      [] b.kind = "other" -> TRUE
      [] OTHER -> FALSE

BizIsDict(b) == b.kind = "dict"

\* dict.get(key): None when the key is missing
Get(b, k) == IF b.d[k].kind = "missing" THEN Null ELSE b.d[k]
\* dict.get(key, default)
GetDefault(b, k, default) == IF b.d[k].kind = "missing" THEN default ELSE b.d[k]

\* knowledge_files: None, a dict (items in insertion order), or another truthy value
NoKF == [kind |-> "none", items |-> <<>>]
KFDict(items) == [kind |-> "dict", items |-> items]
KFOther == [kind |-> "other", items |-> <<>>]

KFTruthy(f) ==
    CASE f.kind = "dict" -> f.items # <<>>
      [] f.kind = "other" -> TRUE
      [] OTHER -> FALSE

KFIsDict(f) == f.kind = "dict"

NoAgent == [present |-> FALSE, sales_script_text |-> Null, business_info |-> NoBiz,
            knowledge_files |-> NoKF]
Agent(script, biz, kf) == [present |-> TRUE, sales_script_text |-> script,
                           business_info |-> biz, knowledge_files |-> kf]

----------------------------------------------------------------------------
(* _build_system_prompt                                                    *)
(* prompt_parts is a list of parts; a part that is not a str makes the     *)
(* final "\n".join raise.                                                  *)

P(t) == [ok |-> TRUE, t |-> t]
\* prompt_parts.append(v) of a value taken from the data as it is
Raw(v) == IF IsStr(v) THEN P(v.s) ELSE [ok |-> FALSE, t |-> <<>>]

\* lines 155-159: company_name = "our company", replaced by business_info['company_name']
DefaultCompany == Text(<<"our company">>)
CompanyName(agent) ==
    IF BizTruthy(agent.business_info) /\ BizIsDict(agent.business_info)
    THEN GetDefault(agent.business_info, "company_name", DefaultCompany)
    ELSE DefaultCompany

HeaderLead == "You are a professional AI sales agent calling from "
HeaderParts(agent) ==
    << P(<<HeaderLead>> \o Fmt(CompanyName(agent)) \o <<".">>) >>

CompanyLead == "COMPANY: "
CompanyParts(agent) ==
    IF BizTruthy(agent.business_info) /\ BizIsDict(agent.business_info)
       /\ Truthy(Get(agent.business_info, "business_description"))
    THEN << P(<<NL, CompanyLead>> \o Fmt(CompanyName(agent)) \o <<" - ">>
              \o Fmt(Get(agent.business_info, "business_description"))) >>
    ELSE <<>>

ScriptTitle == "CALL SCRIPT - NATURAL CONVERSATION FLOW:"
ScriptSection(agent) ==
    << P(<<NL, NL, BAR>>),
       P(<<ScriptTitle>>),
       P(<<BAR>>),
       P(<<NL, "HOW TO USE THIS SCRIPT:">>),
       P(<<"* If customer LISTENS silently -> Continue step-by-step">>),
       P(<<"* If customer INTERRUPTS -> Respond to their question/comment">>),
       P(<<"* After answering -> Continue where you left off in the script">>),
       P(<<NL>> \o agent.sales_script_text.s) >>
ScriptPartsAlways(agent) == ScriptSection(agent)
ScriptParts(agent) ==
    IF Truthy(agent.sales_script_text) THEN ScriptSection(agent) ELSE <<>>

\* "\n" + agent_obj.sales_script_text raises TypeError for a non-str value
ScriptRaises(agent) ==
    Truthy(agent.sales_script_text) /\ ~IsStr(agent.sales_script_text)

\* line 187: if agent_obj.knowledge_files or agent_obj.business_info
KnowledgeIncludedIfPresent(agent) ==
    agent.knowledge_files.kind # "none" \/ agent.business_info.kind # "none"
KnowledgeIncluded(agent) ==
    KFTruthy(agent.knowledge_files) \/ BizTruthy(agent.business_info)

\* company_name.upper() raises AttributeError unless company_name is a str
UpperRaises(agent) == KnowledgeIncluded(agent) /\ ~IsStr(CompanyName(agent))

KnowledgeTitle == " KNOWLEDGE BASE:"
KnowledgeBanner(agent) ==
    << P(<<NL, NL, BAR>>),
       P(Upper(CompanyName(agent).s) \o <<KnowledgeTitle>>),
       P(<<BAR>>) >>

RECURSIVE Bullets(_)
Bullets(l) == IF l = <<>> THEN <<>> ELSE <<P(<<"* ">> \o Head(l))>> \o Bullets(Tail(l))

FeatureParts(biz) ==
    IF ~Truthy(Get(biz, "product_features")) THEN <<>>
    ELSE <<P(<<NL, "PRODUCT FEATURES:">>)>> \o
         (CASE Get(biz, "product_features").kind = "list" ->
                   Bullets(Get(biz, "product_features").l)
            [] Get(biz, "product_features").kind = "text" ->
                   <<P(Get(biz, "product_features").s)>>
            [] OTHER -> <<>>)

\* lines 194-221
BizParts(agent) ==
    LET biz == agent.business_info IN
    IF ~(BizTruthy(biz) /\ BizIsDict(biz)) THEN <<>>
    ELSE (IF Truthy(Get(biz, "company_website"))
          THEN <<P(<<NL, "Website: ">> \o Fmt(Get(biz, "company_website")))>> ELSE <<>>)
         \o (IF Truthy(Get(biz, "industry"))
             THEN <<P(<<"Industry: ">> \o Fmt(Get(biz, "industry")))>> ELSE <<>>)
         \o FeatureParts(biz)
         \o (IF Truthy(Get(biz, "pricing_info"))
             THEN <<P(<<NL, "PRICING:">>), Raw(Get(biz, "pricing_info"))>> ELSE <<>>)
         \o (IF Truthy(Get(biz, "target_customers"))
             THEN <<P(<<NL, "TARGET CUSTOMERS:">>), Raw(Get(biz, "target_customers"))>>
             ELSE <<>>)

\* lines 224-228: one label line and one value line per item with a truthy value
RECURSIVE FileParts(_)
FileParts(items) ==
    IF items = <<>> THEN <<>>
    ELSE (IF Truthy(Head(items).v)
          THEN << P(<<NL>> \o ReplaceUnderscore(Upper(Head(items).k)) \o <<":">>),
                  P(Fmt(Head(items).v)) >>
          ELSE <<>>)
         \o FileParts(Tail(items))

KnowledgeParts(agent) ==
    IF ~KnowledgeIncluded(agent) THEN <<>>
    ELSE KnowledgeBanner(agent)
         \o BizParts(agent)
         \o (IF KFTruthy(agent.knowledge_files) /\ KFIsDict(agent.knowledge_files)
             THEN FileParts(agent.knowledge_files.items) ELSE <<>>)

QuestionTitle == "INTELLIGENT QUESTION HANDLING:"
QuestionParts(agent) ==
    << P(<<NL, NL, BAR>>),
       P(<<QuestionTitle>>),
       P(<<BAR>>),
       P(<<NL, "WHEN CUSTOMER ASKS QUESTIONS:">>),
       P(<<"1. Search knowledge base above for relevant information">>),
       P(<<"2. Answer in 1-2 sentences maximum">>),
       P(<<"3. After answering, RETURN to script where you left off">>),
       P(<<NL, "EXAMPLES:">>),
       P(<<"* \"Can you hear me?\" -> \"Yes, I can hear you perfectly. Let me continue...\"">>),
       P(<<"* \"How are you?\" -> \"I'm great, thanks! Let me tell you about ">>
         \o Fmt(CompanyName(agent)) \o <<"...\"">>),
       P(<<"* Technical question -> Answer from knowledge base + continue script">>),
       P(<<"* Off-topic -> \"Let me connect you with someone for that. Now, about ">>
         \o Fmt(CompanyName(agent)) \o <<"...\"">>),
       P(<<NL, "GOLDEN RULE: Always bring conversation back to sales call after answering questions!">>) >>

RulesTitle == "CRITICAL RESPONSE RULES:"
RulesParts(agent) ==
    << P(<<NL, NL, BAR>>),
       P(<<RulesTitle>>),
       P(<<BAR>>),
       P(<<NL, "1. Maximum 2 sentences per response - NO EXCEPTIONS">>),
       P(<<"2. Use exact script wording for main call flow">>),
       P(<<"3. For questions: Search knowledge base -> Answer briefly -> Return to script">>),
       P(<<"4. No filler words: 'um', 'uh', 'like', 'you know', 'hmm', 'well'">>),
       P(<<"5. Be direct and professional">>),
       P(<<"6. Answer ANY question about ">> \o Fmt(CompanyName(agent))
         \o <<" using knowledge base">>),
       P(<<"7. For unrelated questions: Brief answer -> Redirect to sales call">>),
       P(<<"8. Never make up information not in knowledge base">>),
       P(<<"9. Always return to script after answering questions">>),
       P(<<"10. Keep moving toward demo booking goal">>),
       P(<<NL, "FORBIDDEN BEHAVIORS:">>),
       P(<<"[x] Long responses (>2 sentences)">>),
       P(<<"[x] Completely ignoring customer questions">>),
       P(<<"[x] Saying 'I don't know' when info is in knowledge base">>),
       P(<<"[x] Changing script wording">>),
       P(<<"[x] Uncertain phrases ('I think', 'maybe', 'probably')">>),
       P(<<"[x] Getting stuck on off-topic discussion">>),
       P(<<"[x] Forgetting to return to script after answering">>),
       P(<<NL, "TONE: Professional, confident, clear, helpful">>),
       P(<<"STYLE: Sales call with intelligent question handling">>),
       P(<<"GOAL: Answer questions intelligently, deliver script, book demo">>) >>

\* prompt_parts at line 271, in the order the appends run
PromptPartsSwapped(agent) ==
    HeaderParts(agent) \o CompanyParts(agent) \o KnowledgeParts(agent)
    \o ScriptParts(agent) \o QuestionParts(agent) \o RulesParts(agent)
PromptParts(agent) ==
    HeaderParts(agent) \o CompanyParts(agent) \o ScriptParts(agent)
    \o KnowledgeParts(agent) \o QuestionParts(agent) \o RulesParts(agent)

\* "\n".join(prompt_parts)
RECURSIVE Join(_)
Join(parts) ==
    IF parts = <<>> THEN <<>>
    ELSE IF Len(parts) = 1 THEN parts[1].t
    ELSE parts[1].t \o <<NL>> \o Join(Tail(parts))

JoinRaises(parts) == \E i \in 1..Len(parts) : ~parts[i].ok

\* an exception is raised somewhere in the try block (lines 150-276)
ComposeRaises(agent) ==
    agent.present /\ (ScriptRaises(agent) \/ UpperRaises(agent) \/ JoinRaises(PromptParts(agent)))

\* the exception the try block raises, "" when it raises none: "\n" + a value
\* that is not a str and join over a part that is not a str raise TypeError,
\* upper() of a value that is not a str raises AttributeError
ComposeException(agent) ==
    IF ~ComposeRaises(agent) THEN ""
    ELSE IF ScriptRaises(agent) THEN "TypeError"
    ELSE IF UpperRaises(agent) THEN "AttributeError"
    ELSE "TypeError"

\* line 278: except Exception
\* (TypeError and AttributeError are subclasses of Exception)
ComposeCaught(exc) == exc \in {"TypeError", "AttributeError"}

\* _build_system_prompt(base_prompt, agent_obj)
BuildSystemPromptKeepsParts(base_prompt, agent) ==
    IF ~agent.present THEN base_prompt
    ELSE Join(PromptParts(agent))
BuildSystemPrompt(base_prompt, agent) ==
    IF ~agent.present THEN base_prompt
    ELSE IF ComposeRaises(agent) THEN base_prompt
    ELSE Join(PromptParts(agent))

----------------------------------------------------------------------------
(* The service instance and the remote's answers                           *)

HUME_API_KEY == <<"key">>
HUME_API_BASE == <<"https://api.hume.ai/v0">>

\* __init__
NewClient ==
    [api_key |-> HUME_API_KEY,
     base_url |-> HUME_API_BASE,
     headers |-> [XHumeApiKey |-> HUME_API_KEY, ContentType |-> <<"application/json">>]]

\* the timeout=10 argument of every requests call
RequestTimeout == 10

\* a response body: response.json() raises ValueError ("invalid"), gives a value
\* that is not a dict ("nonobject"), or gives a dict ("object") with its entries
Body(json, id, configs) == [json |-> json, id |-> id, configs |-> configs]
BodyInvalid == Body("invalid", Missing, Missing)
BodyNonObject == Body("nonobject", Missing, Missing)
Bodies ==
    { BodyInvalid, BodyNonObject,
      Body("object", Missing, Missing),
      Body("object", Text(<<"c", "1">>), Missing),
      Body("object", Missing, List(<< <<"c", "1">>, <<"c", "2">> >>)) }

Statuses == {200, 201, 204, 404, 409, 500}

\* what requests.post/patch/delete/get does: raises Timeout, raises
\* ConnectionError, or returns a response
Outcome(kind, status, body) == [kind |-> kind, status |-> status, body |-> body]
Outcomes ==
    { Outcome("timeout", 0, BodyInvalid), Outcome("connection_error", 0, BodyInvalid) }
    \cup { Outcome("response", st, b) : st \in Statuses, b \in Bodies }

\* return values: a Python value (None, an id, a list), a bool, or a parsed body
RVal(v) == [kind |-> "val", v |-> v, b |-> FALSE, body |-> BodyInvalid]
RBool(b) == [kind |-> "bool", v |-> Null, b |-> b, body |-> BodyInvalid]
RBody(body) == [kind |-> "body", v |-> Null, b |-> FALSE, body |-> body]
RNone == RVal(Null)
NoResult == [kind |-> "unset", v |-> Null, b |-> FALSE, body |-> BodyInvalid]

\* what the try block of an operation does with one transport outcome:
\* returns value, raises exc, or (create_agent on 409) calls itself again
Returns(value) == [exc |-> "", value |-> value, retry |-> FALSE]
Raises(exc) == [exc |-> exc, value |-> NoResult, retry |-> FALSE]
Retries == [exc |-> "", value |-> NoResult, retry |-> TRUE]

Transport(out, onResponse) ==
    CASE out.kind = "timeout" -> Raises("Timeout")
      [] out.kind = "connection_error" -> Raises("ConnectionError")
      [] OTHER -> onResponse

\* response.json() followed by data.get(key, default)
JsonGet(body, key, default) ==
    CASE body.json = "invalid" -> Raises("ValueError")
      [] body.json = "nonobject" -> Raises("AttributeError")
      [] OTHER -> Returns(RVal(IF body[key].kind = "missing" THEN default ELSE body[key]))

\* the except clauses: every operation ends with `except Exception`
ExceptionTypes == {"Timeout", "ConnectionError", "ValueError", "AttributeError", "TypeError",
                   "RecursionError"}
CaughtOnlyTransport(o, exc) == exc \in {"Timeout", "ConnectionError"}
Caught(o, exc) == exc \in ExceptionTypes

\* the value each operation's except clauses return
Sentinel(o) ==
    CASE o = "create" -> RNone
      [] o = "get" -> RNone
      [] o = "list" -> RVal(List(<<>>))
      [] OTHER -> RBool(FALSE)

----------------------------------------------------------------------------
(* Requests                                                                *)

Request(method, url, json, c) ==
    [method |-> method, url |-> url, json |-> json, headers |-> c.headers,
     timeout |-> RequestTimeout]

\* line 88: enhanced_prompt[:200] + "..." if len(enhanced_prompt) > 200 else enhanced_prompt
\* (lengths are counted in tokens here)
DescriptionLimit == 200
Description(text) ==
    IF Len(text) > DescriptionLimit
    THEN SubSeq(text, 1, DescriptionLimit) \o <<"...">>
    ELSE text

\* the arguments of one call: every operation's frame has the same entries, and
\* those the operation does not take are None (config_id: empty, agent_obj: absent)
Frame(config_id, name, system_prompt, voice_name, language, agent_obj) ==
    [config_id |-> config_id, name |-> name, system_prompt |-> system_prompt,
     voice_name |-> voice_name, language |-> language, agent_obj |-> agent_obj]

\* lines 56-89
CreatePayload(frame) ==
    LET enhanced_prompt == BuildSystemPrompt(frame.system_prompt.s, frame.agent_obj) IN
    [name |-> frame.name.s,
     prompt |-> [text |-> enhanced_prompt],
     voice |-> [provider |-> "HUME_AI", name |-> frame.voice_name.s],
     language |-> [code |-> frame.language.s],
     ellm_model |-> [provider |-> "HUME_AI",
                     model |-> "anthropic.claude-3-5-sonnet-20240620-v1:0",
                     allow_short_responses |-> TRUE],
     builtin_tools |-> << [name |-> "web_search", enabled |-> TRUE],
                          [name |-> "hang_up", enabled |-> TRUE] >>,
     description |-> Description(enhanced_prompt)]

ConfigsUrl(c) == c.base_url \o <<"/evi/configs">>
ConfigUrl(c, config_id) == c.base_url \o <<"/evi/configs/">> \o config_id

\* line 102
PostRequest(frame, c) == Request("POST", ConfigsUrl(c), CreatePayload(frame), c)

\* datetime.now().strftime('%Y%m%d%H%M%S'): the date and minute as one token,
\* then the two digits of the second
Stamp(now) == <<"%Y%m%d%H%M", Digit((now \div 10) % 10), Digit(now % 10)>>

\* lines 116-122: the frame of the recursive call
RetryFrameSameName(frame, now) == frame
RetryFrame(frame, now) ==
    [frame EXCEPT !.name = Text(frame.name.s \o <<"_">> \o Stamp(now))]

\* lines 106-126: what create_agent does with the outcome of its POST
CreateStepAccepts200(out) ==
    Transport(out,
        CASE out.status \in {200, 201} -> JsonGet(out.body, "id", Null)
          [] out.status = 409 -> Retries
          [] OTHER -> Returns(RNone))
CreateStep(out) ==
    Transport(out,
        CASE out.status = 201 -> JsonGet(out.body, "id", Null)
          [] out.status = 409 -> Retries
          [] OTHER -> Returns(RNone))

\* lines 304-312: the partial payload, one entry per truthy argument
UpdatePayload(frame) ==
    [key \in { k \in {"name", "prompt", "voice", "language"} :
                  \/ (k = "name" /\ Truthy(frame.name))
                  \/ (k = "prompt" /\ Truthy(frame.system_prompt))
                  \/ (k = "voice" /\ Truthy(frame.voice_name))
                  \/ (k = "language" /\ Truthy(frame.language)) } |->
        CASE key = "name" -> frame.name.s
          [] key = "prompt" -> [text |-> frame.system_prompt.s]
          [] key = "voice" -> [provider |-> "HUME_AI", name |-> frame.voice_name.s]
          [] OTHER -> [code |-> frame.language.s]]

\* line 314: if not payload
PayloadEmptyNever(payload) == FALSE
PayloadEmpty(payload) == DOMAIN payload = {}

\* lines 321-326
UpdateStepAlso204(out) ==
    Transport(out, Returns(RBool(out.status \in {200, 204})))
UpdateStep(out) ==
    Transport(out, Returns(RBool(out.status = 200)))

\* lines 348-353
DeleteStepOnly200(out) ==
    Transport(out, Returns(RBool(out.status = 200)))
DeleteStep(out) ==
    Transport(out, Returns(RBool(out.status \in {200, 204})))

\* lines 374-378
GetStepAnyStatus(out) ==
    Transport(out,
        IF out.body.json = "invalid" THEN Raises("ValueError")
        ELSE Returns(RBody(out.body)))
GetStep(out) ==
    Transport(out,
        IF out.status = 200
        THEN (IF out.body.json = "invalid" THEN Raises("ValueError")
              ELSE Returns(RBody(out.body)))
        ELSE Returns(RNone))

\* lines 396-401
ListStep(out) ==
    Transport(out,
        IF out.status = 200
        THEN JsonGet(out.body, "configs", List(<<>>))
        ELSE Returns(RVal(List(<<>>))))

----------------------------------------------------------------------------
(* Inputs                                                                  *)

Names == { <<"n">> }
Prompts == { <<"p">> }
Voices == { <<"ITO">> }
Languages == { <<"en">> }
ConfigIds == { <<"c", "1">> }

\* an optional str argument: None (the default), "", or a text
Optional(texts) == {Null, Text(<<>>)} \cup { Text(t) : t \in texts }

Script == <<"h", "i">>
Acme == <<"a", "c">>

\* agent records the client is called with
ClientAgents ==
    { NoAgent,
      Agent(Text(Script), NoBiz, NoKF),
      Agent(Text(Script), BizDict([company_name |-> Text(Acme)]), NoKF),
      Agent(Null, BizDict([company_name |-> Num(7)]), NoKF) }

----------------------------------------------------------------------------
(* The operations                                                          *)

Idle == pc = "idle"
Awaiting(o) == pc = "awaiting" /\ op = o

\* the operation ends: its value is returned, or its except clause returns the
\* sentinel, or the exception leaves the operation
Complete(o, step) ==
    /\ pc' = "done"
    /\ raised' = (step.exc # "" /\ ~Caught(o, step.exc))
    /\ result' = IF step.exc = "" THEN step.value
                 ELSE IF Caught(o, step.exc) THEN Sentinel(o) ELSE NoResult

\* create_agent(name, system_prompt, voice_name, language, agent_obj) up to its POST
CallCreate(name, system_prompt, voice_name, language, agent_obj) ==
    LET frame == Frame(<<>>, Text(name), Text(system_prompt), Text(voice_name),
                       Text(language), agent_obj) IN
    /\ Idle
    /\ op' = "create"
    /\ stack' = <<frame>>
    /\ requests' = <<PostRequest(frame, client)>>
    /\ responses' = <<>>
    /\ pc' = "awaiting"
    /\ UNCHANGED <<client, result, raised, clock, composeVars, sharedVars, startupVars>>

\* create_agent from the outcome of its POST on: return, or on 409 the recursive
\* call up to its POST
CreateRespond(out) ==
    /\ Awaiting("create")
    /\ (out.kind = "response" /\ out.status = 409) => Len(stack) <= MaxRetries
    /\ responses' = Append(responses, out)
    /\ IF CreateStep(out).retry
       THEN LET next == RetryFrame(stack[Len(stack)], clock) IN
            /\ stack' = Append(stack, next)
            /\ requests' = Append(requests, PostRequest(next, client))
            /\ UNCHANGED <<pc, result, raised>>
       ELSE /\ Complete("create", CreateStep(out))
            /\ UNCHANGED <<stack, requests>>
    /\ UNCHANGED <<client, op, clock, composeVars, sharedVars, startupVars>>

\* update_agent(config_id, name, system_prompt, voice_name, language) up to its PATCH
CallUpdate(config_id, name, system_prompt, voice_name, language) ==
    LET frame == Frame(config_id, name, system_prompt, voice_name, language, NoAgent)
        payload == UpdatePayload(frame) IN
    /\ Idle
    /\ op' = "update"
    /\ stack' = <<frame>>
    /\ responses' = <<>>
    /\ IF PayloadEmpty(payload)
       THEN /\ requests' = <<>>
            /\ Complete("update", Returns(RBool(FALSE)))
       ELSE /\ requests' = <<Request("PATCH", ConfigUrl(client, config_id), payload, client)>>
            /\ pc' = "awaiting"
            /\ UNCHANGED <<result, raised>>
    /\ UNCHANGED <<client, clock, composeVars, sharedVars, startupVars>>

UpdateRespond(out) ==
    /\ Awaiting("update")
    /\ responses' = Append(responses, out)
    /\ Complete("update", UpdateStep(out))
    /\ UNCHANGED <<client, op, stack, requests, clock, composeVars, sharedVars, startupVars>>

\* delete_agent(config_id) up to its DELETE
CallDelete(config_id) ==
    /\ Idle
    /\ op' = "delete"
    /\ stack' = <<Frame(config_id, Null, Null, Null, Null, NoAgent)>>
    /\ requests' = <<Request("DELETE", ConfigUrl(client, config_id), <<>>, client)>>
    /\ responses' = <<>>
    /\ pc' = "awaiting"
    /\ UNCHANGED <<client, result, raised, clock, composeVars, sharedVars, startupVars>>

DeleteRespond(out) ==
    /\ Awaiting("delete")
    /\ responses' = Append(responses, out)
    /\ Complete("delete", DeleteStep(out))
    /\ UNCHANGED <<client, op, stack, requests, clock, composeVars, sharedVars, startupVars>>

\* get_agent(config_id) up to its GET
CallGet(config_id) ==
    /\ Idle
    /\ op' = "get"
    /\ stack' = <<Frame(config_id, Null, Null, Null, Null, NoAgent)>>
    /\ requests' = <<Request("GET", ConfigUrl(client, config_id), <<>>, client)>>
    /\ responses' = <<>>
    /\ pc' = "awaiting"
    /\ UNCHANGED <<client, result, raised, clock, composeVars, sharedVars, startupVars>>

GetRespond(out) ==
    /\ Awaiting("get")
    /\ responses' = Append(responses, out)
    /\ Complete("get", GetStep(out))
    /\ UNCHANGED <<client, op, stack, requests, clock, composeVars, sharedVars, startupVars>>

\* list_agents() up to its GET
CallList ==
    /\ Idle
    /\ op' = "list"
    /\ stack' = <<Frame(<<>>, Null, Null, Null, Null, NoAgent)>>
    /\ requests' = <<Request("GET", ConfigsUrl(client), <<>>, client)>>
    /\ responses' = <<>>
    /\ pc' = "awaiting"
    /\ UNCHANGED <<client, result, raised, clock, composeVars, sharedVars, startupVars>>

ListRespond(out) ==
    /\ Awaiting("list")
    /\ responses' = Append(responses, out)
    /\ Complete("list", ListStep(out))
    /\ UNCHANGED <<client, op, stack, requests, clock, composeVars, sharedVars, startupVars>>

\* the caller takes the result; the service is ready for the next call
Return ==
    /\ pc = "done"
    /\ pc' = "idle"
    /\ op' = "none"
    /\ stack' = <<>>
    /\ requests' = <<>>
    /\ responses' = <<>>
    /\ result' = NoResult
    /\ raised' = FALSE
    /\ UNCHANGED <<client, clock, composeVars, sharedVars, startupVars>>

\* a second passes
Tick ==
    /\ clock < MaxClock
    /\ clock' = clock + 1
    /\ UNCHANGED <<client, pc, op, stack, requests, responses, result, raised, composeVars, sharedVars, startupVars>>

----------------------------------------------------------------------------
(* create_agent against a remote that may answer 409 without end           *)

\* line 116: the call stack has no room for the nested call to run its POST to
\* the end, and RecursionError is raised inside it
ExhaustedNever(frames) == FALSE
Exhausted(frames) == Len(frames) >= StackFrames

\* create_agent from the outcome of its POST on.  On 409 the nested call runs up
\* to its POST; when the stack is exhausted RecursionError is raised in the
\* nested call, before or after its POST went out (sent), the except clauses of
\* the frames catch it (line 135) and the call returns None.
CreateRespondDeep(out, sent) ==
    /\ Awaiting("create")
    /\ responses' = Append(responses, out)
    /\ IF CreateStep(out).retry
       THEN LET next == RetryFrame(stack[Len(stack)], clock) IN
            /\ stack' = Append(stack, next)
            /\ IF Exhausted(stack)
               THEN /\ requests' = IF sent THEN Append(requests, PostRequest(next, client))
                                   ELSE requests
                    /\ Complete("create", Raises("RecursionError"))
               ELSE /\ sent
                    /\ requests' = Append(requests, PostRequest(next, client))
                    /\ UNCHANGED <<pc, result, raised>>
       ELSE /\ sent
            /\ Complete("create", CreateStep(out))
            /\ UNCHANGED <<stack, requests>>
    /\ UNCHANGED <<client, op, clock, composeVars, sharedVars, startupVars>>

----------------------------------------------------------------------------
(* Concurrent callers of the one module-level instance (line 409)          *)

Threads == {1, 2}

\* the locals of one call in progress
Call(cpc, o, frames, reqs, resps, res, exc) ==
    [pc |-> cpc, op |-> o, stack |-> frames, requests |-> reqs,
     responses |-> resps, result |-> res, raised |-> exc]
NoCall == Call("idle", "none", <<>>, <<>>, <<>>, NoResult, FALSE)
ThreadsAtRest == threads = [t \in Threads |-> NoCall]

\* the instance after operation o ran on it: no method assigns to self.api_key,
\* self.base_url or self.headers, or changes the headers dict
ClientAfterRekeyed(c, o) == [c EXCEPT !.headers.XHumeApiKey = <<>>]
ClientAfter(c, o) == c

\* the request an operation issues first
FirstRequest(o, frame, c) ==
    CASE o = "create" -> PostRequest(frame, c)
      [] o = "update" -> Request("PATCH", ConfigUrl(c, frame.config_id), UpdatePayload(frame), c)
      [] o = "delete" -> Request("DELETE", ConfigUrl(c, frame.config_id), <<>>, c)
      [] o = "get" -> Request("GET", ConfigUrl(c, frame.config_id), <<>>, c)
      [] OTHER -> Request("GET", ConfigsUrl(c), <<>>, c)

\* what an operation does with the outcome of its request
StepOf(o, out) ==
    CASE o = "create" -> CreateStep(out)
      [] o = "update" -> UpdateStep(out)
      [] o = "delete" -> DeleteStep(out)
      [] o = "get" -> GetStep(out)
      [] OTHER -> ListStep(out)

\* the call once the operation has ended with step
Ended(call, step) ==
    [call EXCEPT !.pc = "done",
                 !.raised = (step.exc # "" /\ ~Caught(call.op, step.exc)),
                 !.result = IF step.exc = "" THEN step.value
                            ELSE IF Caught(call.op, step.exc) THEN Sentinel(call.op)
                            ELSE NoResult]

\* the calls the callers make, and the answers the remote gives them
SharedCalls ==
    { [op |-> "create",
       frame |-> Frame(<<>>, Text(<<"n">>), Text(<<"p">>), Text(<<"ITO">>), Text(<<"en">>),
                       Agent(Text(Script), BizDict([company_name |-> Text(Acme)]), NoKF))],
      [op |-> "update", frame |-> Frame(<<"c", "1">>, Text(<<"n">>), Null, Null, Null, NoAgent)],
      [op |-> "update", frame |-> Frame(<<"c", "1">>, Null, Null, Null, Null, NoAgent)],
      [op |-> "delete", frame |-> Frame(<<"c", "1">>, Null, Null, Null, Null, NoAgent)],
      [op |-> "get", frame |-> Frame(<<"c", "1">>, Null, Null, Null, Null, NoAgent)],
      [op |-> "list", frame |-> Frame(<<>>, Null, Null, Null, Null, NoAgent)],
      [op |-> "compose",
       frame |-> Frame(<<>>, Null, Text(<<"p">>), Null, Null, Agent(Text(Script), NoBiz, NoKF))] }
SharedOutcomes ==
    { Outcome("timeout", 0, BodyInvalid),
      Outcome("response", 201, Body("object", Text(<<"c", "1">>), Missing)),
      Outcome("response", 409, BodyInvalid),
      Outcome("response", 200, Body("object", Missing, List(<< <<"c", "1">>, <<"c", "2">> >>))),
      Outcome("response", 204, BodyInvalid),
      Outcome("response", 500, BodyNonObject) }

\* caller t calls an operation: the call runs up to its first request, or to its
\* end when it issues none (compose; update_agent with nothing to update)
ThreadCall(t, o, frame) ==
    LET begun == Call("awaiting", o, <<frame>>, <<>>, <<>>, NoResult, FALSE) IN
    /\ threads[t].pc = "idle"
    /\ threads' = [threads EXCEPT ![t] =
          CASE o = "compose" ->
                 Ended(begun, Returns(RVal(Text(BuildSystemPrompt(frame.system_prompt.s,
                                                                  frame.agent_obj)))))
            [] o = "update" /\ PayloadEmpty(UpdatePayload(frame)) ->
                 Ended(begun, Returns(RBool(FALSE)))
            [] OTHER -> [begun EXCEPT !.requests = <<FirstRequest(o, frame, client)>>]]
    /\ client' = ClientAfter(client, o)
    /\ UNCHANGED <<pc, op, stack, requests, responses, result, raised, clock,
                   composeVars, startupVars>>

\* the request of caller t is answered
ThreadRespond(t, out) ==
    LET call == threads[t]
        step == StepOf(call.op, out)
        heard == [call EXCEPT !.responses = Append(@, out)] IN
    /\ call.pc = "awaiting"
    /\ (out.kind = "response" /\ out.status = 409 /\ call.op = "create")
          => Len(call.stack) <= MaxRetries
    /\ threads' = [threads EXCEPT ![t] =
          IF step.retry
          THEN LET next == RetryFrame(call.stack[Len(call.stack)], clock) IN
               [heard EXCEPT !.stack = Append(@, next),
                             !.requests = Append(@, PostRequest(next, client))]
          ELSE Ended(heard, step)]
    /\ client' = ClientAfter(client, call.op)
    /\ UNCHANGED <<pc, op, stack, requests, responses, result, raised, clock,
                   composeVars, startupVars>>

\* caller t takes its result
ThreadReturn(t) ==
    /\ threads[t].pc = "done"
    /\ threads' = [threads EXCEPT ![t] = NoCall]
    /\ UNCHANGED <<callVars, composeVars, startupVars>>

----------------------------------------------------------------------------
(* railway_startup.py                                                      *)

\* line 10: wait_for_database(max_attempts=30, delay=2); main passes neither
max_attempts == 30

\* os.environ.get('DATABASE_URL'): None, "", or a URL
DatabaseUrls == {Null, Text(<<>>), Text(<<"postgres://db">>)}

\* how subprocess.run ends for the database check (lines 17-30): return code 0,
\* another return code, TimeoutExpired, or another exception (OSError)
CheckOutcomes == {"ok", "nonzero", "timeout", "error"}
\* how subprocess.run(check=True) ends (lines 41-46, 56-59)
RunOutcomes == {"ok", "CalledProcessError", "OSError"}

\* the state of the script before main has run (exit_code -1: still running)
ScriptAtStart ==
    /\ startPc = "main"
    /\ attempt = 0
    /\ checks = 0
    /\ lastCheck = "none"
    /\ lastMigrate = "none"
    /\ steps = <<>>
    /\ exit_code = -1
    /\ uncaught = FALSE
StartupAtRest == db_url = Null /\ ScriptAtStart

\* sys.exit(code), or the end of the script
Exit(code) ==
    /\ startPc' = "exited"
    /\ exit_code' = code

\* lines 14-35: what wait_for_database does once the check of iteration n (from
\* 0) has ended: return True, go round the loop again, or return False
WaitReturnGivesUp(outcome, n) == IF outcome = "ok" THEN "True" ELSE "False"
WaitReturn(outcome, n) ==
    IF outcome = "ok" THEN "True"
    ELSE IF n + 1 < max_attempts THEN "again"
    ELSE "False"

\* lines 40-48: run_migrations returns True, returns False, or lets the
\* exception through (only CalledProcessError is caught)
MigrationsReturn(outcome) ==
    CASE outcome = "ok" -> "True"
      [] outcome = "CalledProcessError" -> "False"
      [] OTHER -> "raise"

\* main, lines 64-79: up to the call of wait_for_database
Main ==
    /\ startPc = "main"
    /\ IF ~Truthy(db_url)
       THEN /\ Exit(1)
            /\ UNCHANGED steps
       ELSE /\ startPc' = "wait"
            /\ steps' = Append(steps, "wait")
            /\ UNCHANGED exit_code
    /\ UNCHANGED <<db_url, attempt, checks, lastCheck, lastMigrate, uncaught>>
    /\ UNCHANGED <<callVars, composeVars, sharedVars>>

\* one iteration of the loop of wait_for_database: the check, then return True,
\* or sleep and go on, or after the last iteration return False to main, which
\* exits (lines 79-81)
DbCheck(outcome) ==
    /\ startPc = "wait"
    /\ checks' = checks + 1
    /\ lastCheck' = outcome
    /\ attempt' = IF outcome = "ok" THEN attempt ELSE attempt + 1
    /\ CASE WaitReturn(outcome, attempt) = "True" ->
              startPc' = "migrate" /\ UNCHANGED exit_code
         [] WaitReturn(outcome, attempt) = "again" ->
              UNCHANGED <<startPc, exit_code>>
         [] OTHER -> Exit(1)
    /\ UNCHANGED <<db_url, lastMigrate, steps, uncaught>>
    /\ UNCHANGED <<callVars, composeVars, sharedVars>>

\* run_migrations and main's handling of its result (lines 84-86); an exception
\* that is not CalledProcessError ends the script with a traceback, status 1
RunMigrations(outcome) ==
    /\ startPc = "migrate"
    /\ steps' = Append(steps, "migrate")
    /\ lastMigrate' = outcome
    /\ CASE MigrationsReturn(outcome) = "True" ->
              startPc' = "server" /\ UNCHANGED <<exit_code, uncaught>>
         [] MigrationsReturn(outcome) = "False" ->
              Exit(1) /\ UNCHANGED uncaught
         [] OTHER -> Exit(1) /\ uncaught' = TRUE
    /\ UNCHANGED <<db_url, attempt, checks, lastCheck>>
    /\ UNCHANGED <<callVars, composeVars, sharedVars>>

\* start_server: the daphne command is run (lines 53-58)
StartServer ==
    /\ startPc = "server"
    /\ startPc' = "serving"
    /\ steps' = Append(steps, "server")
    /\ UNCHANGED <<db_url, attempt, checks, lastCheck, lastMigrate, exit_code, uncaught>>
    /\ UNCHANGED <<callVars, composeVars, sharedVars>>

\* the daphne command ends: normally, and main returns, or with an exception,
\* and start_server exits (lines 59-61)
ServerEnds(outcome) ==
    /\ startPc = "serving"
    /\ Exit(IF outcome = "ok" THEN 0 ELSE 1)
    /\ UNCHANGED <<db_url, attempt, checks, lastCheck, lastMigrate, steps, uncaught>>
    /\ UNCHANGED <<callVars, composeVars, sharedVars>>

Init ==
    /\ client = NewClient
    /\ pc = "idle"
    /\ op = "none"
    /\ stack = <<>>
    /\ requests = <<>>
    /\ responses = <<>>
    /\ result = NoResult
    /\ raised = FALSE
    /\ clock = 0
    /\ cBase = <<>>
    /\ cAgent = NoAgent
    /\ cOut = <<>>
    /\ cFell = FALSE
    /\ cRaised = FALSE
    /\ cDone = TRUE
    /\ ThreadsAtRest
    /\ StartupAtRest

Next ==
    \/ \E name \in Names, system_prompt \in Prompts, voice_name \in Voices,
          language \in Languages, agent_obj \in ClientAgents :
          CallCreate(name, system_prompt, voice_name, language, agent_obj)
    \/ \E out \in Outcomes : CreateRespond(out)
    \/ \E config_id \in ConfigIds, name \in Optional(Names),
          system_prompt \in Optional(Prompts), voice_name \in Optional(Voices),
          language \in Optional(Languages) :
          CallUpdate(config_id, name, system_prompt, voice_name, language)
    \/ \E out \in Outcomes : UpdateRespond(out)
    \/ \E config_id \in ConfigIds : CallDelete(config_id)
    \/ \E out \in Outcomes : DeleteRespond(out)
    \/ \E config_id \in ConfigIds : CallGet(config_id)
    \/ \E out \in Outcomes : GetRespond(out)
    \/ CallList
    \/ \E out \in Outcomes : ListRespond(out)
    \/ Return
    \/ Tick

Spec == Init /\ [][Next]_vars

----------------------------------------------------------------------------
(* _build_system_prompt run on its own, over a wider set of agent records  *)

Bases == { <<"p">>, <<>> }

ComposeScripts == { Null, Text(<<>>), Text(Script) }

ComposeBiz ==
    { NoBiz,
      BizDict(<<>>),
      BizOther,
      BizDict([company_name |-> Text(Acme)]),
      BizDict([company_name |-> Num(7)]),
      BizDict([company_name |-> Null]),
      BizDict([business_description |-> Text(<<"d">>)]),
      BizDict([company_name |-> Text(Acme),
               business_description |-> Text(<<"d">>),
               company_website |-> Text(<<"w">>),
               industry |-> Text(<<"i">>),
               product_features |-> List(<< <<"f">>, <<"g">> >>),
               pricing_info |-> Text(<<"1">>),
               target_customers |-> Text(<<"t">>)]),
      BizDict([product_features |-> Text(<<"f">>)]),
      BizDict([pricing_info |-> Num(5)]) }

ComposeFiles ==
    { NoKF,
      KFDict(<<>>),
      KFOther,
      KFDict(<< [k |-> <<"f", "_", "a">>, v |-> Text(<<"x">>)] >>),
      KFDict(<< [k |-> <<"b">>, v |-> Text(<<>>)],
                [k |-> <<"a", "_", "b">>, v |-> Text(Script)],
                [k |-> <<"c">>, v |-> Num(3)] >>) }

ComposeAgents ==
    {NoAgent} \cup
    { Agent(script, biz, kf) :
        script \in ComposeScripts, biz \in ComposeBiz, kf \in ComposeFiles }

\* one call of _build_system_prompt(cBase, cAgent)
Compose ==
    /\ ~cDone
    /\ cOut' = BuildSystemPrompt(cBase, cAgent)
    /\ cFell' = (ComposeRaises(cAgent) /\ ComposeCaught(ComposeException(cAgent)))
    /\ cRaised' = (ComposeRaises(cAgent) /\ ~ComposeCaught(ComposeException(cAgent)))
    /\ cDone' = TRUE
    /\ UNCHANGED <<callVars, cBase, cAgent, sharedVars, startupVars>>

InitCompose ==
    /\ client = NewClient
    /\ pc = "idle"
    /\ op = "none"
    /\ stack = <<>>
    /\ requests = <<>>
    /\ responses = <<>>
    /\ result = NoResult
    /\ raised = FALSE
    /\ clock = 0
    /\ cBase \in Bases
    /\ cAgent \in ComposeAgents
    /\ cOut = <<>>
    /\ cFell = FALSE
    /\ cRaised = FALSE
    /\ cDone = FALSE
    /\ ThreadsAtRest
    /\ StartupAtRest

NextCompose == Compose

SpecCompose == InitCompose /\ [][NextCompose]_vars

----------------------------------------------------------------------------
(* Properties of the five operations, checked under Spec                   *)

Finished(o) == pc = "done" /\ op = o
LastResponse == responses[Len(responses)]
Answered == Len(responses) > 0
HasStatus(out, statuses) == out.kind = "response" /\ out.status \in statuses
TransportFailed(out) == out.kind \in {"timeout", "connection_error"}
Conflicts == { i \in 1..Len(responses) : HasStatus(responses[i], {409}) }

C2_CreateResult ==
    (Finished("create") /\ Answered) =>
        /\ (HasStatus(LastResponse, {201}) /\ LastResponse.body.json = "object"
               /\ LastResponse.body.id.kind = "text")
              => (result = RVal(LastResponse.body.id) /\ ~raised)
        /\ HasStatus(LastResponse, Statuses \ {201, 409}) => (result = RNone /\ ~raised)
        /\ TransportFailed(LastResponse) => (result = RNone /\ ~raised)
        /\ result # RNone =>
               /\ HasStatus(LastResponse, {201})
               /\ LastResponse.body.json = "object"
               /\ result = RVal(LastResponse.body.id)

C2_Witness ==
    /\ Finished("create")
    /\ Len(responses) = 2
    /\ HasStatus(LastResponse, {201})
    /\ result = RVal(Text(<<"c", "1">>))

\* the status on which an operation reports success
SuccessStatuses(o) ==
    CASE o = "create" -> {201}
      [] o = "delete" -> {200, 204}
      [] OTHER -> {200}

\* an outcome that is not a success: the transport raised, the status is not a
\* success status, or the body of a success answer cannot be parsed
Unparsable(out) == out.kind = "response" /\ out.body.json = "invalid"
FailureOutcome(o, out) ==
    \/ TransportFailed(out)
    \/ HasStatus(out, Statuses \ (SuccessStatuses(o) \cup {409}))
    \/ (o # "create" /\ HasStatus(out, {409}))
    \/ (HasStatus(out, SuccessStatuses(o)) /\ Unparsable(out))
BodyReadingOps == {"create", "get", "list"}
FailureOutcomeOfReader(o, out) ==
    \/ TransportFailed(out)
    \/ HasStatus(out, Statuses \ (SuccessStatuses(o) \cup {409}))
    \/ (o # "create" /\ HasStatus(out, {409}))
    \/ (o \in BodyReadingOps /\ HasStatus(out, SuccessStatuses(o)) /\ Unparsable(out))

\* C3 as stated: after a timeout, a connection failure, an unexpected status or
\* an unparsable body on a success status, each of the five operations returns
\* its sentinel and raises nothing.
C3_AsStated ==
    (pc = "done" /\ Answered /\ FailureOutcome(op, LastResponse)) =>
        (result = Sentinel(op) /\ ~raised)

\* C3 amended: no operation ever raises; after a timeout, a connection failure
\* or an unexpected status each operation returns its sentinel; after an
\* unparsable body on a success status create_agent, get_agent and list_agents
\* (the operations that read the body) return their sentinel.
C3_NeverRaisesSentinel ==
    /\ ~raised
    /\ (pc = "done" /\ Answered /\ FailureOutcomeOfReader(op, LastResponse)) =>
           result = Sentinel(op)

C3_Witness ==
    /\ Finished("list")
    /\ HasStatus(LastResponse, {200})
    /\ Unparsable(LastResponse)
    /\ result = RVal(List(<<>>))
    /\ ~raised


UpdateArgs == {"name", "system_prompt", "voice_name", "language"}
\* the payload entry each argument of update_agent goes to
PayloadKey(arg) ==
    CASE arg = "name" -> "name"
      [] arg = "system_prompt" -> "prompt"
      [] arg = "voice_name" -> "voice"
      [] OTHER -> "language"
\* the caller passed the argument (anything but the default None)
Supplied(frame, arg) == frame[arg].kind # "none"
\* the caller passed a non-empty text
SuppliedNonEmpty(frame, arg) == frame[arg].kind = "text" /\ frame[arg].s # <<>>

\* C4: update_agent called with none of name, system_prompt, voice_name and
\* language returns False and sends nothing; and every PATCH it sends has a
\* payload with at least one entry.
C4_UpdateNeedsAField ==
    op = "update" =>
        /\ (\A arg \in UpdateArgs : ~Supplied(stack[1], arg)) =>
               (requests = <<>> /\ pc = "done" /\ result = RBool(FALSE) /\ ~raised)
        /\ \A i \in 1..Len(requests) :
               requests[i].method = "PATCH" => DOMAIN requests[i].json # {}

C4_Witness ==
    /\ Finished("update")
    /\ \A arg \in UpdateArgs : ~Supplied(stack[1], arg)
    /\ requests = <<>>
    /\ result = RBool(FALSE)

\* the prompt entry is the caller's text as it was passed, and the result is
\* True exactly on status 200
UpdateRawPromptAndResult ==
    /\ \A i \in 1..Len(requests) :
           "prompt" \in DOMAIN requests[i].json =>
               requests[i].json.prompt = [text |-> stack[1].system_prompt.s]
    /\ (pc = "done" /\ Answered) =>
           result = RBool(HasStatus(LastResponse, {200}))
    /\ (pc = "done" /\ result = RBool(TRUE)) =>
           (Answered /\ HasStatus(LastResponse, {200}))

\* C5 as stated: the PATCH payload has an entry for exactly the arguments the
\* caller supplied; the prompt entry is the caller's text as it is; the result is
\* True only on status 200.
C5_AsStated ==
    op = "update" =>
        /\ \A i \in 1..Len(requests) : \A arg \in UpdateArgs :
               PayloadKey(arg) \in DOMAIN requests[i].json <=> Supplied(stack[1], arg)
        /\ UpdateRawPromptAndResult

\* C5 amended: the PATCH payload has an entry for exactly the arguments the
\* caller supplied with a non-empty value (an argument passed as "" gets no
\* entry); the prompt entry is the caller's text as it is; the result is True
\* only on status 200.
C5_UpdatePayloadNonEmptyFields ==
    op = "update" =>
        /\ \A i \in 1..Len(requests) : \A arg \in UpdateArgs :
               PayloadKey(arg) \in DOMAIN requests[i].json <=> SuppliedNonEmpty(stack[1], arg)
        /\ UpdateRawPromptAndResult

C5_Witness ==
    /\ Finished("update")
    /\ Len(requests) = 1
    /\ stack[1].name = Text(<<>>)
    /\ DOMAIN requests[1].json = {"prompt", "language"}
    /\ requests[1].json.prompt.text = <<"p">>
    /\ HasStatus(LastResponse, {200})
    /\ result = RBool(TRUE)

\* C6: delete_agent sends exactly one DELETE, for the given config_id, and
\* returns True if and only if the answer's status is 200 or 204.
C6_DeleteOnceTrueOn200Or204 ==
    op = "delete" =>
        /\ Len(requests) = 1
        /\ requests[1].method = "DELETE"
        /\ requests[1].url = client.base_url \o <<"/evi/configs/">> \o stack[1].config_id
        /\ pc = "done" => (result = RBool(HasStatus(LastResponse, {200, 204})) /\ ~raised)

C6_Witness ==
    /\ Finished("delete")
    /\ HasStatus(LastResponse, {204})
    /\ result = RBool(TRUE)

\* C7: get_agent returns the parsed body when the status is 200 and None for
\* every other status, and returns a body only on status 200; list_agents
\* returns the body's configs when the status is 200 and [] for every other
\* status and for a 200 body with no configs entry.
C7_GetAndListResults ==
    /\ Finished("get") =>
           /\ (HasStatus(LastResponse, {200}) /\ ~Unparsable(LastResponse))
                  => result = RBody(LastResponse.body)
           /\ HasStatus(LastResponse, Statuses \ {200}) => result = RNone
           /\ result # RNone
                  => (HasStatus(LastResponse, {200}) /\ result = RBody(LastResponse.body))
    /\ Finished("list") =>
           /\ (HasStatus(LastResponse, {200}) /\ LastResponse.body.json = "object"
                  /\ LastResponse.body.configs.kind # "missing")
                  => result = RVal(LastResponse.body.configs)
           /\ (HasStatus(LastResponse, {200}) /\ LastResponse.body.json = "object"
                  /\ LastResponse.body.configs.kind = "missing")
                  => result = RVal(List(<<>>))
           /\ HasStatus(LastResponse, Statuses \ {200}) => result = RVal(List(<<>>))
           /\ result # RVal(List(<<>>))
                  => (HasStatus(LastResponse, {200}) /\ result = RVal(LastResponse.body.configs))

C7_Witness ==
    /\ Finished("list")
    /\ HasStatus(LastResponse, {200})
    /\ result = RVal(List(<< <<"c", "1">>, <<"c", "2">> >>))

----------------------------------------------------------------------------
(* Properties of _build_system_prompt, checked under SpecCompose           *)

\* where a token stands in the output
Positions(text, token) == { i \in 1..Len(text) : text[i] = token }
Has(text, token) == Positions(text, token) # {}

\* the token that opens each section, in the order of the list
SectionMarks ==
    <<HeaderLead, CompanyLead, ScriptTitle, KnowledgeTitle, QuestionTitle, RulesTitle>>

\* the prompt was composed: an agent was given and the except clause did not run
Composed == cDone /\ cAgent.present /\ ~cFell

\* text holds part as one contiguous run that starts after position lo and ends
\* before position hi
ContainsBetween(text, part, lo, hi) ==
    \E i \in 1..Len(text) :
        /\ i > lo
        /\ i + Len(part) - 1 < hi
        /\ SubSeq(text, i, i + Len(part) - 1) = part

\* the end of the header line: the first line break
HeaderEnd(text) ==
    IF Has(text, NL) THEN CHOOSE i \in Positions(text, NL) :
                              \A j \in Positions(text, NL) : i <= j
    ELSE Len(text) + 1

QuestionStart(text) ==
    IF Has(text, QuestionTitle) THEN CHOOSE i \in Positions(text, QuestionTitle) : TRUE
    ELSE 0

\* C8: in every composed prompt each section opens at most once, a section
\* earlier in the list header, company description, call script, knowledge
\* base, question handling, critical rules opens before every later one, the
\* header opens the text, and question handling and critical rules are there.
C8_SectionsInOrder ==
    Composed =>
        /\ \A a \in 1..Len(SectionMarks) :
               Cardinality(Positions(cOut, SectionMarks[a])) <= 1
        /\ \A a, b \in 1..Len(SectionMarks) :
               a < b => \A i \in Positions(cOut, SectionMarks[a]) :
                            \A j \in Positions(cOut, SectionMarks[b]) : i < j
        /\ Positions(cOut, HeaderLead) = {1}
        /\ Has(cOut, QuestionTitle)
        /\ Has(cOut, RulesTitle)

C8_Witness ==
    /\ Composed
    /\ \A a \in 1..Len(SectionMarks) : Has(cOut, SectionMarks[a])

HasScript(agent) ==
    agent.sales_script_text.kind = "text" /\ agent.sales_script_text.s # <<>>

\* C9 as stated: for every agent with a non-empty sales_script_text S the
\* output holds S in one piece after the header and before the question
\* handling block; with no sales_script_text there is no call script banner.
C9_AsStated ==
    (cDone /\ cAgent.present) =>
        /\ HasScript(cAgent) =>
               ContainsBetween(cOut, cAgent.sales_script_text.s,
                               HeaderEnd(cOut), QuestionStart(cOut))
        /\ cAgent.sales_script_text.kind = "none" => ~Has(cOut, ScriptTitle)

\* C9 amended: for every agent with a non-empty sales_script_text S for which
\* the prompt is composed (no error sends it back to base_prompt), the output
\* holds S in one piece after the header and before the question handling
\* block; with no sales_script_text there is no call script banner.
C9_ScriptVerbatimWhenComposed ==
    (cDone /\ cAgent.present) =>
        /\ (HasScript(cAgent) /\ ~cFell) =>
               /\ Has(cOut, ScriptTitle)
               /\ ContainsBetween(cOut, <<NL>> \o cAgent.sales_script_text.s \o <<NL>>,
                                  HeaderEnd(cOut), QuestionStart(cOut))
        /\ cAgent.sales_script_text.kind = "none" => ~Has(cOut, ScriptTitle)

C9_Witness ==
    /\ Composed
    /\ HasScript(cAgent)
    /\ cAgent.knowledge_files = NoKF
    /\ Has(cOut, KnowledgeTitle)
    /\ ContainsBetween(cOut, cAgent.sales_script_text.s, HeaderEnd(cOut), QuestionStart(cOut))

\* an agent with no optional field set
Bare(agent) ==
    /\ agent.present
    /\ agent.sales_script_text.kind = "none"
    /\ agent.business_info.kind = "none"
    /\ agent.knowledge_files.kind = "none"

\* the header line with the default company name, the question handling block
\* and the critical rules block, and nothing else
BareOutput ==
    Join(<< P(<<HeaderLead, "our company", ".">>) >>
         \o QuestionParts(NoAgent) \o RulesParts(NoAgent))

\* C10 as stated: the knowledge base section is in the output if and only if
\* knowledge_files is non-empty or business_info is present; an agent with no
\* optional field gives exactly header, question handling and critical rules.
C10_AsStated ==
    (cDone /\ cAgent.present) =>
        /\ Has(cOut, KnowledgeTitle) <=>
               (KFTruthy(cAgent.knowledge_files) \/ cAgent.business_info.kind # "none")
        /\ Bare(cAgent) => cOut = BareOutput

\* C10 amended: when the prompt is composed, the knowledge base section is
\* in the output if and only if knowledge_files is non-empty or business_info
\* is non-empty (an empty mapping counts as absent); an agent with no optional
\* field gives exactly header, question handling and critical rules.
C10_KnowledgeIffNonEmpty ==
    (cDone /\ cAgent.present) =>
        /\ ~cFell =>
               (Has(cOut, KnowledgeTitle) <=>
                    \/ KFTruthy(cAgent.knowledge_files)
                    \/ cAgent.business_info.kind = "other"
                    \/ (cAgent.business_info.kind = "dict" /\
                        \E k \in BizKeys : cAgent.business_info.d[k].kind # "missing"))
        /\ Bare(cAgent) => (cOut = BareOutput /\ ~cFell)

C10_Witness ==
    /\ Composed
    /\ cAgent.business_info = BizDict(<<>>)
    /\ cAgent.knowledge_files = NoKF
    /\ ~Has(cOut, KnowledgeTitle)


\* C11: _build_system_prompt never raises; without an agent it returns
\* base_prompt as it is; and when an error occurs while the prompt is built
\* (a field of the wrong type) it returns base_prompt as it is, not the parts
\* put together so far.
C11_ComposeFallsBackToBase ==
    cDone =>
        /\ ~cRaised
        /\ ~cAgent.present => (cOut = cBase /\ ~cFell)
        /\ ComposeRaises(cAgent) => (cFell /\ cOut = cBase)
        /\ cFell => (cOut = cBase /\ ~Has(cOut, HeaderLead))

C11_Witness ==
    /\ cDone
    /\ cAgent.present
    /\ cAgent.business_info = BizDict([company_name |-> Num(7)])
    /\ HasScript(cAgent)
    /\ cBase = <<"p">>
    /\ cFell
    /\ cOut = <<"p">>

----------------------------------------------------------------------------
(* Concurrent callers                                                      *)

InitShared ==
    /\ client = NewClient
    /\ pc = "idle"
    /\ op = "none"
    /\ stack = <<>>
    /\ requests = <<>>
    /\ responses = <<>>
    /\ result = NoResult
    /\ raised = FALSE
    /\ clock = 0
    /\ cBase = <<>>
    /\ cAgent = NoAgent
    /\ cOut = <<>>
    /\ cFell = FALSE
    /\ cRaised = FALSE
    /\ cDone = TRUE
    /\ ThreadsAtRest
    /\ StartupAtRest

NextShared ==
    \/ \E t \in Threads, c \in SharedCalls : ThreadCall(t, c.op, c.frame)
    \/ \E t \in Threads, out \in SharedOutcomes : ThreadRespond(t, out)
    \/ \E t \in Threads : ThreadReturn(t)
    \/ Tick

SpecShared == InitShared /\ [][NextShared]_vars

\* C12: the instance is never modified after construction, whatever calls
\* (create, update, delete, get, list, compose) run and however they
\* interleave; every request of every caller carries the headers set at
\* construction; and a call's result depends only on its own arguments and the
\* answers to its own requests: two calls of the same operation with the same
\* arguments that received the same answers have ended with the same result.
C12_SharedClientStateless ==
    /\ client = NewClient
    /\ \A t \in Threads : \A i \in 1..Len(threads[t].requests) :
          threads[t].requests[i].headers = NewClient.headers
    /\ \A t, u \in Threads :
          (/\ threads[t].pc = "done" /\ threads[u].pc = "done"
           /\ threads[t].op = threads[u].op
           /\ threads[t].stack[1] = threads[u].stack[1]
           /\ threads[t].responses = threads[u].responses)
          => (/\ threads[t].result = threads[u].result
              /\ threads[t].raised = threads[u].raised)

\* both callers created concurrently with the same arguments and were answered
\* 409 then 201; their retries carry different names, their results are the same
C12_Witness ==
    /\ \A t \in Threads :
          /\ threads[t].pc = "done"
          /\ threads[t].op = "create"
          /\ Len(threads[t].requests) = 2
          /\ threads[t].responses[1].status = 409
          /\ threads[t].result = RVal(Text(<<"c", "1">>))
    /\ threads[1].responses = threads[2].responses
    /\ threads[1].requests[2].json.name # threads[2].requests[2].json.name

----------------------------------------------------------------------------
(* Retries without end                                                     *)

NextDeep ==
    \/ \E name \in Names, system_prompt \in Prompts, voice_name \in Voices,
          language \in Languages, agent_obj \in ClientAgents :
          CallCreate(name, system_prompt, voice_name, language, agent_obj)
    \/ \E out \in Outcomes, sent \in BOOLEAN : CreateRespondDeep(out, sent)
    \/ Return
    \/ Tick

SpecDeep == Init /\ [][NextDeep]_vars

\* what create_agent returns for the answer to its last attempt
ResultOfAttempt(out) ==
    IF HasStatus(out, {201}) /\ out.body.json = "object"
    THEN RVal(IF out.body.id.kind = "missing" THEN Null ELSE out.body.id)
    ELSE RNone

\* C13 as stated: a create_agent call that received k 409 answers has issued
\* k+1 POSTs, and it ends only on an answer that is not 409, with the outcome of
\* that attempt as its result (there is no bound on k).
C13_AsStated ==
    op = "create" =>
        /\ Len(requests) = Cardinality(Conflicts) + 1
        /\ Finished("create") =>
               /\ ~HasStatus(LastResponse, {409})
               /\ result = ResultOfAttempt(LastResponse)

\* C13: the 409 answers of a create_agent call are consecutive and at most
\* StackFrames; while the call waits it has issued one POST more than the 409s
\* it received; a call that ended on an answer other than 409 issued k+1 POSTs
\* for its k 409s and returns the outcome of that last attempt alone; a call that
\* ended on a 409 is one whose nested calls exhausted the stack: it received
\* StackFrames 409s, issued no POST after the failing nested call's, returns
\* None and raises nothing.
C13_RetriesUntilStackExhausted ==
    op = "create" =>
        LET k == Cardinality(Conflicts) IN
        /\ k <= StackFrames
        /\ Conflicts = 1..k
        /\ pc = "awaiting" =>
               /\ Len(responses) = k
               /\ k < StackFrames
               /\ Len(requests) = k + 1
        /\ Finished("create") =>
               /\ ~raised
               /\ IF HasStatus(LastResponse, {409})
                  THEN /\ k = StackFrames
                       /\ Len(responses) = k
                       /\ Len(requests) \in {k, k + 1}
                       /\ result = RNone
                  ELSE /\ Len(responses) = k + 1
                       /\ Len(requests) = k + 1
                       /\ result = ResultOfAttempt(LastResponse)

\* the remote answered 409 to every attempt the stack had room for: the call
\* ended with None after as many POSTs as 409s
C13_Witness ==
    /\ Finished("create")
    /\ Cardinality(Conflicts) = StackFrames
    /\ HasStatus(LastResponse, {409})
    /\ Len(requests) = StackFrames
    /\ result = RNone
    /\ ~raised

----------------------------------------------------------------------------
(* The startup script                                                      *)

InitStartup ==
    /\ client = NewClient
    /\ pc = "idle"
    /\ op = "none"
    /\ stack = <<>>
    /\ requests = <<>>
    /\ responses = <<>>
    /\ result = NoResult
    /\ raised = FALSE
    /\ clock = 0
    /\ cBase = <<>>
    /\ cAgent = NoAgent
    /\ cOut = <<>>
    /\ cFell = FALSE
    /\ cRaised = FALSE
    /\ cDone = TRUE
    /\ ThreadsAtRest
    /\ db_url \in DatabaseUrls
    /\ ScriptAtStart

NextStartup ==
    \/ Main
    \/ \E outcome \in CheckOutcomes : DbCheck(outcome)
    \/ \E outcome \in RunOutcomes : RunMigrations(outcome)
    \/ StartServer
    \/ \E outcome \in RunOutcomes : ServerEnds(outcome)

SpecStartup == InitStartup /\ [][NextStartup]_vars

Begun(step) == \E i \in 1..Len(steps) : steps[i] = step
Exited(code) == startPc = "exited" /\ exit_code = code
StartupOrder == <<"wait", "migrate", "server">>

\* C14: the steps of the startup script begin in the order database wait,
\* migrations, server; migrations begin only after a database check returned
\* success, and the server is started only after the migrate command succeeded;
\* without DATABASE_URL the script exits with status 1 before any step, after a
\* failed database wait it exits with status 1 with no migrations, after failed
\* migrations it exits with status 1 with no server.  The database wait runs at
\* most max_attempts checks, none after a successful one, and fails only when
\* max_attempts checks were all unsuccessful.
C14_StartupOrder ==
    /\ Len(steps) <= 3
    /\ steps = SubSeq(StartupOrder, 1, Len(steps))
    /\ Begun("migrate") => (lastCheck = "ok" /\ Truthy(db_url))
    /\ Begun("server") => lastMigrate = "ok"
    /\ (~Truthy(db_url) /\ startPc # "main") => (Exited(1) /\ steps = <<>> /\ checks = 0)
    /\ checks <= max_attempts
    /\ checks = attempt + (IF lastCheck = "ok" THEN 1 ELSE 0)
    /\ lastCheck = "ok" => startPc # "wait"
    /\ (startPc # "wait" /\ steps = <<"wait">>)
          => \/ startPc = "migrate" /\ lastCheck = "ok"
             \/ /\ Exited(1)
                /\ checks = max_attempts
                /\ attempt = max_attempts
                /\ lastCheck \in CheckOutcomes \ {"ok"}
    /\ lastMigrate \in RunOutcomes \ {"ok"}
          => (Exited(1) /\ steps = <<"wait", "migrate">>)
    /\ Exited(0) => steps = StartupOrder

\* the database answered at the last of the max_attempts checks; migrations ran
\* and the server was started
C14_Witness ==
    /\ startPc = "serving"
    /\ checks = max_attempts
    /\ attempt = max_attempts - 1
    /\ lastCheck = "ok"
    /\ lastMigrate = "ok"
    /\ steps = StartupOrder

====
